---- MODULE Spec2Model ----
(***************************************************************************)
(* A model of the rrdcached client of thz/go-rrd: the Client of            *)
(* src/unnamed/part_000 (NewClient, initConnection, setDeadline, ExecCmd,  *)
(* Close, scanErr) and the Info decoder of src/cmd_info.go.                *)
(*                                                                         *)
(* Text is modelled as sequences of one-character strings, so that the     *)
(* status-line pattern, strconv.Atoi, strings.SplitN and strconv.ParseInt  *)
(* are computed the way the code computes them.                            *)
(***************************************************************************)
EXTENDS Integers, Sequences, FiniteSets, TLC

(***************************************************************************)
(* Bounds of the model.                                                    *)
(***************************************************************************)
\* number of goroutines that call into one Client
NumCallers == 2
\* calls (ExecCmd, Info or Close) issued in one behaviour
MaxCalls == 2
\* connections the dialer can establish in one behaviour
MaxConns == 2
\* lines the daemon delivers to the Scans of one call
MaxStream == 3
\* options passed to NewClient
MaxOptions == 2
\* the write and reconnect attempts of one call are counted up to here; a call
\* makes at most MaxConns of each while new connections are counted
MaxTries == MaxConns + 1

(***************************************************************************)
(* Characters and text.                                                    *)
(***************************************************************************)
Digits == {"0", "1", "2", "3", "4", "5", "6", "7", "8", "9"}

\* the characters the regexp class \s matches
Whitespace == {" ", "\t", "\n", "\f", "\r"}

DigitVal(ch) ==
  CASE ch = "0" -> 0 [] ch = "1" -> 1 [] ch = "2" -> 2 [] ch = "3" -> 3
    [] ch = "4" -> 4 [] ch = "5" -> 5 [] ch = "6" -> 6 [] ch = "7" -> 7
    [] ch = "8" -> 8 [] ch = "9" -> 9

\* the suffix of s that starts at index i (empty when i > Len(s))
Drop(s, i) == SubSeq(s, i, Len(s))

\* the length of the longest prefix of s whose characters are all in set
RECURSIVE SpanLen(_, _)
SpanLen(s, set) ==
  IF s = <<>> \/ Head(s) \notin set THEN 0 ELSE 1 + SpanLen(Tail(s), set)

\* s without its leading "0" characters, keeping at least one character
RECURSIVE StripZeros(_)
StripZeros(s) ==
  IF Len(s) > 1 /\ Head(s) = "0" THEN StripZeros(Tail(s)) ELSE s

\* lexicographic a > b for digit sequences of the same length
RECURSIVE DigitsGreater(_, _)
DigitsGreater(a, b) ==
  IF a = <<>> THEN FALSE
  ELSE IF DigitVal(Head(a)) # DigitVal(Head(b))
       THEN DigitVal(Head(a)) > DigitVal(Head(b))
       ELSE DigitsGreater(Tail(a), Tail(b))

\* the value of a digit sequence (used only on sequences that fit TLC's integers)
RECURSIVE DigitsValue(_, _)
DigitsValue(s, acc) ==
  IF s = <<>> THEN acc ELSE DigitsValue(Tail(s), acc * 10 + DigitVal(Head(s)))

\* the decimal digits of 1<<63 - 1 and of 1<<63 (the int64 range)
MaxInt64Digits ==
  <<"9","2","2","3","3","7","2","0","3","6","8","5","4","7","7","5","8","0","7">>
MinInt64Digits ==
  <<"9","2","2","3","3","7","2","0","3","6","8","5","4","7","7","5","8","0","8">>

\* whether the magnitude written by the digit sequence d exceeds limit
Exceeds(d, limit) ==
  LET z == StripZeros(d)
  IN  \/ Len(z) > Len(limit)
      \/ Len(z) = Len(limit) /\ DigitsGreater(z, limit)

\* strconv.ParseInt(s, 10, 64): an optional sign, then decimal digits only;
\* a syntax error or a value outside int64 is an error.
ParseInt(s) ==
  LET signed == s # <<>> /\ Head(s) \in {"+", "-"}
      neg    == s # <<>> /\ Head(s) = "-"
      d      == IF signed THEN Tail(s) ELSE s
  IN  IF d = <<>> \/ SpanLen(d, Digits) # Len(d)
      THEN [ok |-> FALSE, err |-> "ErrSyntax"]
      ELSE IF Exceeds(d, IF neg THEN MinInt64Digits ELSE MaxInt64Digits)
      THEN [ok |-> FALSE, err |-> "ErrRange"]
      ELSE [ok |-> TRUE,
            val |-> IF neg THEN 0 - DigitsValue(StripZeros(d), 0)
                    ELSE DigitsValue(StripZeros(d), 0)]

\* strconv.Atoi(s): ParseInt(s, 10, 0) on a 64-bit int
Atoi(s) == ParseInt(s)

(***************************************************************************)
(* The status-line pattern and the field split.                            *)
(***************************************************************************)
\* respRe.FindStringSubmatch(l) for respRe = ^(-?\d+)\s+(.*)$ : the empty
\* sequence when l does not match, else <<l, count text, trailing text>>.
\* \d+ and \s+ are greedy, so the trailing text starts at the first
\* character after the count that is not whitespace.
FindStringSubmatch(l) ==
  LET neg == l # <<>> /\ Head(l) = "-"
      a   == IF neg THEN Tail(l) ELSE l
      nd  == SpanLen(a, Digits)
      b   == Drop(a, nd + 1)
      nw  == SpanLen(b, Whitespace)
  IN  IF nd = 0 \/ nw = 0 THEN <<>>
      ELSE <<l, SubSeq(l, 1, nd + (IF neg THEN 1 ELSE 0)), Drop(b, nw + 1)>>

\* the index of the first sep in s, 0 when there is none
RECURSIVE IndexOf(_, _)
IndexOf(s, sep) ==
  IF s = <<>> THEN 0
  ELSE IF Head(s) = sep THEN 1
  ELSE LET r == IndexOf(Tail(s), sep) IN IF r = 0 THEN 0 ELSE r + 1

\* strings.SplitN(s, sep, n) for n >= 1: at most n parts, the last one unsplit
RECURSIVE SplitN(_, _, _)
SplitN(s, sep, n) ==
  LET i == IndexOf(s, sep)
  IN  IF n <= 1 \/ i = 0 THEN <<s>>
      ELSE <<SubSeq(s, 1, i - 1)>> \o SplitN(Drop(s, i + 1), sep, n - 1)

(***************************************************************************)
(* strconv.ParseFloat(s, 64) on decimal literals.  A float is kept as its  *)
(* exact decimal value: sign, significant digits without leading or        *)
(* trailing zeros, and the power of ten of the last digit.  Literals of at *)
(* most 15 significant digits denote distinct float64 values, so this      *)
(* keeps the conversion faithful for the texts of the model (hexadecimal   *)
(* literals and digit separators are outside its alphabet).                *)
(***************************************************************************)
Lower(ch) ==
  CASE ch = "I" -> "i" [] ch = "N" -> "n" [] ch = "F" -> "f" [] ch = "A" -> "a"
    [] ch = "T" -> "t" [] ch = "Y" -> "y" [] ch = "E" -> "e"
    [] OTHER -> ch

LowerAll(s) == [i \in 1..Len(s) |-> Lower(s[i])]

\* s without its trailing "0" characters (possibly empty)
RECURSIVE StripTrailingZeros(_)
StripTrailingZeros(s) ==
  IF s # <<>> /\ s[Len(s)] = "0" THEN StripTrailingZeros(SubSeq(s, 1, Len(s) - 1))
  ELSE s

\* the digits of 2^1024 - 2^970, the first decimal that rounds to +Inf
OverflowDigits ==
  <<"1","7","9","7","6","9","3","1","3","4","8","6","2","3","1","5","8">>

\* a >= b for digit sequences read as decimal fractions 0.a and 0.b
RECURSIVE FracAtLeast(_, _)
FracAtLeast(a, b) ==
  IF b = <<>> THEN TRUE
  ELSE IF a = <<>> THEN StripTrailingZeros(b) = <<>>
  ELSE IF DigitVal(Head(a)) # DigitVal(Head(b))
       THEN DigitVal(Head(a)) > DigitVal(Head(b))
       ELSE FracAtLeast(Tail(a), Tail(b))

\* the exponent accumulator of readFloat saturates at 10000
RECURSIVE ExpValue(_, _)
ExpValue(s, acc) ==
  IF s = <<>> THEN acc
  ELSE ExpValue(Tail(s), IF acc < 10000 THEN acc * 10 + DigitVal(Head(s)) ELSE acc)

FloatZero(neg) == [kind |-> "float", neg |-> neg, digits |-> <<>>, exp |-> 0]

\* special: "inf" and "infinity" (signed or not) and unsigned "nan", in any case
FloatSpecial(signed, u) ==
  IF LowerAll(u) \in {<<"i","n","f">>, <<"i","n","f","i","n","i","t","y">>} THEN "inf"
  ELSE IF ~signed /\ LowerAll(u) = <<"n","a","n">> THEN "nan"
  ELSE "none"

\* readFloat, the mantissa: digits, optionally a point and more digits
ReadMantissa(u) ==
  LET ni == SpanLen(u, Digits)
      a  == Drop(u, ni + 1)
  IN  IF a # <<>> /\ Head(a) = "."
      THEN LET nf == SpanLen(Tail(a), Digits)
           IN  [ni |-> ni, digits |-> SubSeq(u, 1, ni) \o SubSeq(Tail(a), 1, nf),
                rest |-> Drop(Tail(a), nf + 1)]
      ELSE [ni |-> ni, digits |-> SubSeq(u, 1, ni), rest |-> a]

\* readFloat, the exponent: nothing, or e / E, an optional sign and digits
ReadExponent(t) ==
  IF t = <<>> \/ Head(t) \notin {"e", "E"}
  THEN [ok |-> TRUE, ev |-> 0, rest |-> t]
  ELSE LET e1  == Tail(t)
           sgn == e1 # <<>> /\ Head(e1) \in {"+", "-"}
           ed  == IF sgn THEN Tail(e1) ELSE e1
           ne  == SpanLen(ed, Digits)
           v   == ExpValue(SubSeq(ed, 1, ne), 0)
       IN  [ok |-> ne > 0,
            ev |-> IF sgn /\ Head(e1) = "-" THEN 0 - v ELSE v,
            rest |-> Drop(ed, ne + 1)]

\* the float of mantissa digits all (ni of them before the point) and
\* exponent ev: out of range above the largest float, zero below the smallest
FloatValue(neg, all, ni, ev) ==
  LET lead == SpanLen(all, {"0"})
      sig  == StripTrailingZeros(Drop(all, lead + 1))
      \* the power of ten of the first significant digit
      sci  == (ni - lead - 1) + ev
  IN  IF sig = <<>> THEN [ok |-> TRUE, val |-> FloatZero(neg)]
      ELSE IF sci > 308 \/ (sci = 308 /\ FracAtLeast(sig, OverflowDigits))
      THEN [ok |-> FALSE, err |-> "ErrRange"]
      ELSE IF sci < 0 - 324 THEN [ok |-> TRUE, val |-> FloatZero(neg)]
      ELSE [ok |-> TRUE,
            val |-> [kind |-> "float", neg |-> neg, digits |-> sig,
                     exp |-> sci - (Len(sig) - 1)]]

\* the float of an unsigned decimal literal u
ParseDecimal(neg, u) ==
  LET mant == ReadMantissa(u)
      ex   == ReadExponent(mant.rest)
  IN  IF mant.digits = <<>> \/ ~ex.ok \/ ex.rest # <<>>
      THEN [ok |-> FALSE, err |-> "ErrSyntax"]
      ELSE FloatValue(neg, mant.digits, mant.ni, ex.ev)

ParseFloat(s) ==
  LET signed == s # <<>> /\ Head(s) \in {"+", "-"}
      neg    == s # <<>> /\ Head(s) = "-"
      u      == IF signed THEN Tail(s) ELSE s
  IN  CASE FloatSpecial(signed, u) = "inf" ->
             [ok |-> TRUE, val |-> [kind |-> "inf", neg |-> neg]]
        [] FloatSpecial(signed, u) = "nan" ->
             [ok |-> TRUE, val |-> [kind |-> "nan"]]
        [] OTHER -> ParseDecimal(neg, u)

(***************************************************************************)
(* Values returned to callers.                                             *)
(***************************************************************************)
\* a nil []string / []*Info, and a non-nil one holding v
NilSlice == [isNil |-> TRUE, v |-> <<>>]
Slice(v) == [isNil |-> FALSE, v |-> v]

\* the nil error
NoErr == [kind |-> "nil"]

\* NewError(code, msg): the error of a negative status line
NewError(code, msg) == [kind |-> "rrd", code |-> code, msg |-> msg]

\* NewInvalidResponseError(msg, line)
NewInvalidResponseError(msg, line) ==
  [kind |-> "InvalidResponse", msg |-> msg, line |-> line]

\* NewCmd(verb).WithArgs(args...) and its wire text: the verb, then each
\* argument after a single space, then a newline
NewCmd(verb, args) == [verb |-> verb, args |-> args]

RECURSIVE JoinArgs(_)
JoinArgs(args) ==
  IF args = <<>> THEN <<>> ELSE <<" ", Head(args)>> \o JoinArgs(Tail(args))

CmdString(cmd) == <<cmd.verb>> \o JoinArgs(cmd.args) \o <<"\n">>

(***************************************************************************)
(* The Info decoder (src/cmd_info.go).                                     *)
(***************************************************************************)
\* a switch that decodes tag "1" as a float
TagTypeOneIsFloat(tag) ==
  CASE tag = <<"2">> -> "string"
    [] tag = <<"1">> -> "float64"
    [] tag = <<"0">> -> "float64"
    [] OTHER -> "unknown"

\* the switch of lines 41-61: the value representation a type tag selects
TagType(tag) ==
  CASE tag = <<"2">> -> "string"
    [] tag = <<"1">> -> "int64"
    [] tag = <<"0">> -> "float64"
    [] OTHER -> "unknown"

\* the value of raw text under a representation (lines 44, 47 and 54)
ParseValue(type, raw) ==
  CASE type = "string" -> [ok |-> TRUE, val |-> raw]
    [] type = "int64" -> ParseInt(raw)
    [] OTHER -> ParseFloat(raw)

\* one pass of the loop body of Info (lines 36-62): the entry of a line, or
\* the error
InfoLine(line) ==
  LET parts == SplitN(line, " ", 3)
  IN  IF Len(parts) # 3
      THEN [ok |-> FALSE, err |-> [kind |-> "not3parts", line |-> line]]
      ELSE IF TagType(parts[2]) = "unknown"
      THEN [ok |-> FALSE,
            err |-> NewInvalidResponseError(
                      [what |-> "unknown type", type |-> parts[2], key |-> parts[1]],
                      line)]
      ELSE LET r == ParseValue(TagType(parts[2]), parts[3])
           IN  IF r.ok
               THEN [ok |-> TRUE,
                     info |-> [Key |-> parts[1],
                               Value |-> [type |-> TagType(parts[2]), v |-> r.val]]]
               ELSE [ok |-> FALSE,
                     err |-> NewInvalidResponseError(
                               [what |-> "invalid", type |-> TagType(parts[2]),
                                key |-> parts[1]], line)]

\* a loop that skips the lines it cannot decode
RECURSIVE InfoLoopSkipsBad(_, _)
InfoLoopSkipsBad(lines, acc) ==
  IF lines = <<>> THEN [data |-> Slice(acc), err |-> NoErr]
  ELSE LET r == InfoLine(Head(lines))
       IN  InfoLoopSkipsBad(Tail(lines), IF r.ok THEN Append(acc, r.info) ELSE acc)

\* the loop of Info over lines, entries collected so far in acc
RECURSIVE InfoLoop(_, _)
InfoLoop(lines, acc) ==
  IF lines = <<>> THEN [data |-> Slice(acc), err |-> NoErr]
  ELSE LET r == InfoLine(Head(lines))
       IN  IF r.ok THEN InfoLoop(Tail(lines), Append(acc, r.info))
           ELSE [data |-> NilSlice, err |-> r.err]

\* Info, from what its ExecCmd call returned
Info(filename, r) ==
  IF r.err # NoErr
  THEN [data |-> NilSlice,
        err |-> [kind |-> "InfoFailed", filename |-> filename, cause |-> r.err]]
  ELSE InfoLoop(r.lines.v, <<>>)

(***************************************************************************)
(* The lines a daemon may deliver.                                         *)
(***************************************************************************)
\* "-1 no": an error reply
LineNeg == <<"-","1"," ","n","o">>
\* "0 ok": a zero-count reply
LineZero == <<"0"," ","o","k">>
\* "1 s": a status line announcing one line
LineOne == <<"1"," ","s">>
\* "2 a 2 b": a status line announcing two lines
LineTwo == <<"2"," ","a"," ","2"," ","b">>
\* "a 1 5": an info content line; as a status line it does not match respRe
LineInfo == <<"a"," ","1"," ","5">>
\* "99999999999999999999 x": a count that matches respRe and does not fit an int
LineHuge == <<"9","9","9","9","9","9","9","9","9","9","9","9","9","9","9","9","9","9","9","9"," ","x">>

Lines == {LineNeg, LineZero, LineOne, LineTwo, LineInfo}

\* the reply of the info scenario, "2 ds[temp].type 2 GAUGE" then
\* "ds[temp].index 1 0", and the same two lines behind a status line "2 ok"
LineTypeHdr  == <<"2"," ","d","s","[","t","e","m","p","]",".","t","y","p","e"," ","2"," ","G","A","U","G","E">>
LineType     == <<"d","s","[","t","e","m","p","]",".","t","y","p","e"," ","2"," ","G","A","U","G","E">>
LineIndex    == <<"d","s","[","t","e","m","p","]",".","i","n","d","e","x"," ","1"," ","0">>
LineTwoOk    == <<"2"," ","o","k">>
ScenarioStream == <<LineTypeHdr, LineIndex>>
FramedStream   == <<LineTwoOk, LineType, LineIndex>>
\* info content lines: "a 1 -42", "b 0 3.5", "c 2 rrd file" decode; "d 9 x" has
\* an unknown tag, "e 1 4x" and "g 0 x" unparsable literals, "f 2" two fields
LineA == <<"a"," ","1"," ","-","4","2">>
LineB == <<"b"," ","0"," ","3",".","5">>
LineC == <<"c"," ","2"," ","r","r","d"," ","f","i","l","e">>
LineD == <<"d"," ","9"," ","x">>
LineE == <<"e"," ","1"," ","4","x">>
LineF == <<"f"," ","2">>
LineG == <<"g"," ","0"," ","x">>
LineThreeOk == <<"3"," ","o","k">>
DecodeStream     == <<LineThreeOk, LineA, LineB, LineC>>
UnknownTagStream == <<LineTwoOk, LineC, LineD>>
BadIntStream     == <<LineTwoOk, LineC, LineE>>
BadFloatStream   == <<LineTwoOk, LineG, LineC>>
FewFieldsStream  == <<LineTwoOk, LineF, LineA>>
InfoStreams ==
  {ScenarioStream, FramedStream, <<LineHuge>>, DecodeStream, UnknownTagStream,
   BadIntStream, BadFloatStream, FewFieldsStream}
\* the reply of the daemon "live": "1 s", then "a 1 5"
LiveStream == <<LineOne, LineInfo>>

FileName == "/tmp/x.rrd"

(***************************************************************************)
(* State.                                                                  *)
(***************************************************************************)
Callers == 1..NumCallers
ConnIds == 1..MaxConns

VARIABLES
  conn,      \* Client.conn: 0 is the nil interface, else the id of a connection
  scanner,   \* Client.scanner: the id of the connection whose stream it reads
  m,         \* Client.m: 0 when unlocked, else the caller that holds it
  daemon,    \* the daemon the client talks to: kind "any" (any lines), or kind "info"
             \* or "live" with the script it replies with on each connection (the
             \* daemon "live" accepts connections without end), or kind "echo" (one
             \* well-framed reply to each command it receives)
  nconns,    \* connections dialled so far
  reply,     \* reply[i]: the lines a daemon other than "any" has still to deliver on
             \* connection i
  serr,      \* serr[i]: the scanner's state: "nil", or the "EOF" / "read" error that ended it
  open,      \* open[i]: connection i is dialled and not closed
  deadline,  \* deadline[i]: "none" while no deadline was ever set on connection i, else "set"
  ncalls,    \* calls issued so far
  crashed,   \* a goroutine panicked: the process is gone
  pc,        \* pc[p]: where caller p is
  cmd,       \* cmd[p]: the call of p: [op, cmd, id, fresh] (op "exec", "info" or
             \* "close"; id numbers the calls made to the daemon "echo"; fresh:
             \* nothing was pending on its connection when the command was written)
  werr,      \* werr[p]: err of the failed Write (ExecCmd), errW (Close)
  derr,      \* derr[p]: errD of Close
  cnt,       \* cnt[p]
  lines,     \* lines[p]
  got,       \* got[p]: the lines the Scans of p's call returned, in order
  xconn,     \* xconn[p]: the connection the command of p was written to, or 0
  refreshed, \* refreshed[p]: the connection p's call set a deadline on since its last I/O, or 0
  tries,     \* tries[p]: the write attempts (w) and reconnect attempts (d) of p's call
  io,        \* io[p]: "guarded" while every write and read of p's call followed its own refresh
  last,      \* what the latest step did, if it wrote, returned or panicked
  ctor       \* NewClient: its phase ("options", "failed" or "done"), the options it
             \* has still to apply and was given, and the dials it has attempted

vars == <<conn, scanner, m, daemon, nconns, reply, serr, open, deadline,
          ncalls, crashed, pc, cmd, werr, derr, cnt, lines, got, xconn,
          refreshed, tries, io, last, ctor>>

connVars  == <<conn, scanner, nconns, reply, serr, open, deadline>>
\* the variables of one call
callVars == <<pc, cmd, werr, derr, cnt, lines, got, xconn, refreshed, tries, io>>

NoEvent == [kind |-> "none"]
\* no call
NoCall == [op |-> "none"]
\* caller p wrote text to connection c
Wrote(p, c, text) == [kind |-> "write", p |-> p, conn |-> c, text |-> text]
NoInfo  == [data |-> NilSlice, err |-> [kind |-> "none"]]

\* NewClient has returned a client
Constructed == [phase |-> "done", rest |-> <<>>, given |-> <<>>, dials |-> 1]

\* the state after NewClient returned a client: the first dial succeeded
InitWith(d) ==
  /\ ctor = Constructed
  /\ \E s \in (CASE d = "info" -> InfoStreams
                  [] d = "live" -> {LiveStream}
                  [] OTHER -> {<<>>}) :
       daemon = [kind |-> d, script |-> s]
  /\ conn = 1 /\ scanner = 1 /\ m = 0 /\ nconns = 1
  /\ reply = [i \in ConnIds |-> IF i = 1 THEN daemon.script ELSE <<>>]
  /\ serr = [i \in ConnIds |-> "nil"]
  /\ open = [i \in ConnIds |-> i = 1]
  /\ deadline = [i \in ConnIds |-> "none"]
  /\ ncalls = 0 /\ crashed = FALSE
  /\ pc = [p \in Callers |-> "idle"]
  /\ cmd = [p \in Callers |-> NoCall]
  /\ werr = [p \in Callers |-> NoErr]
  /\ derr = [p \in Callers |-> NoErr]
  /\ cnt = [p \in Callers |-> 0]
  /\ lines = [p \in Callers |-> <<>>]
  /\ got = [p \in Callers |-> <<>>]
  /\ xconn = [p \in Callers |-> 0]
  /\ refreshed = [p \in Callers |-> 0]
  /\ tries = [p \in Callers |-> [w |-> 0, d |-> 0]]
  /\ io = [p \in Callers |-> "guarded"]
  /\ last = NoEvent

Init == InitWith("any")

InitInfo == InitWith("info")

InitLive == InitWith("live")

\* the client talks to a daemon that answers each command it receives
InitEcho == InitWith("echo")

\* the options NewClient may be passed: nil, a function that returns nil (as
\* Timeout and Unix do), a function that returns an error
Options == {"nil", "ok", "err"}

OptionLists == UNION {[1..n -> Options] : n \in 0..MaxOptions}

\* the state when NewClient is called with some options: nothing is dialled
InitNew ==
  /\ \E opts \in OptionLists :
       ctor = [phase |-> "options", rest |-> opts, given |-> opts, dials |-> 0]
  /\ daemon = [kind |-> "any", script |-> <<>>]
  /\ conn = 0 /\ scanner = 0 /\ m = 0 /\ nconns = 0
  /\ reply = [i \in ConnIds |-> <<>>]
  /\ serr = [i \in ConnIds |-> "nil"]
  /\ open = [i \in ConnIds |-> FALSE]
  /\ deadline = [i \in ConnIds |-> "none"]
  /\ ncalls = 0 /\ crashed = FALSE
  /\ pc = [p \in Callers |-> "idle"]
  /\ cmd = [p \in Callers |-> NoCall]
  /\ werr = [p \in Callers |-> NoErr]
  /\ derr = [p \in Callers |-> NoErr]
  /\ cnt = [p \in Callers |-> 0]
  /\ lines = [p \in Callers |-> <<>>]
  /\ got = [p \in Callers |-> <<>>]
  /\ xconn = [p \in Callers |-> 0]
  /\ refreshed = [p \in Callers |-> 0]
  /\ tries = [p \in Callers |-> [w |-> 0, d |-> 0]]
  /\ io = [p \in Callers |-> "guarded"]
  /\ last = NoEvent

(***************************************************************************)
(* Steps shared by the operations.                                         *)
(***************************************************************************)
\* the call of p is over: its locals are gone
EndCall(p) ==
  /\ pc' = [pc EXCEPT ![p] = "idle"]
  /\ werr' = [werr EXCEPT ![p] = NoErr]
  /\ derr' = [derr EXCEPT ![p] = NoErr]
  /\ cnt' = [cnt EXCEPT ![p] = 0]
  /\ lines' = [lines EXCEPT ![p] = <<>>]
  /\ got' = [got EXCEPT ![p] = <<>>]
  /\ xconn' = [xconn EXCEPT ![p] = 0]
  /\ refreshed' = [refreshed EXCEPT ![p] = 0]
  /\ tries' = [tries EXCEPT ![p] = [w |-> 0, d |-> 0]]
  /\ io' = [io EXCEPT ![p] = "guarded"]
  /\ cmd' = [cmd EXCEPT ![p] = NoCall]

\* a return of ExecCmd that leaves the mutex locked
ReturnKeepsLock(p, ls, e, g, u, c, t) ==
  /\ last' = [kind |-> "return", p |-> p, op |-> cmd[p].op,
              id |-> cmd[p].id, fresh |-> cmd[p].fresh,
              lines |-> ls, err |-> e,
              info |-> IF cmd[p].op = "info"
                       THEN Info(FileName, [lines |-> ls, err |-> e]) ELSE NoInfo,
              got |-> g, io |-> u, xconn |-> c, tries |-> t]
  /\ m' = m
  /\ EndCall(p)

\* a return of ExecCmd with (ls, e): the deferred Unlock runs and, in an Info
\* call, Info decodes what was returned.  g, u and t are the call's final
\* got, io and tries, c the connection its command was written to.
Return(p, ls, e, g, u, c, t) ==
  /\ last' = [kind |-> "return", p |-> p, op |-> cmd[p].op,
              id |-> cmd[p].id, fresh |-> cmd[p].fresh,
              lines |-> ls, err |-> e,
              info |-> IF cmd[p].op = "info"
                       THEN Info(FileName, [lines |-> ls, err |-> e]) ELSE NoInfo,
              got |-> g, io |-> u, xconn |-> c, tries |-> t]
  /\ m' = 0
  /\ EndCall(p)

\* a return of ExecCmd by a step that does no I/O
ReturnNow(p, ls, e) == Return(p, ls, e, got[p], io[p], xconn[p], tries[p])

\* a method call on the nil c.conn: the goroutine panics (a deferred Unlock
\* runs) and the process dies
Panic(p) ==
  /\ crashed' = TRUE
  /\ last' = [kind |-> "panic", p |-> p, op |-> cmd[p].op]
  /\ m' = IF m = p THEN 0 ELSE m
  /\ EndCall(p)

\* c.setDeadline() inside ExecCmd, then the step at next; ok is whether
\* conn.SetDeadline succeeds (it fails on a closed connection)
SetDeadline(p, ok, next) ==
  /\ ok => conn # 0 /\ open[conn]
  /\ IF conn = 0
     THEN /\ Panic(p)
          /\ UNCHANGED deadline
     ELSE IF ok
     THEN /\ deadline' = [deadline EXCEPT ![conn] = "set"]
          /\ refreshed' = [refreshed EXCEPT ![p] = conn]
          /\ pc' = [pc EXCEPT ![p] = next]
          /\ last' = NoEvent
          /\ UNCHANGED <<m, crashed, cmd, werr, derr, cnt, lines, got, xconn, tries, io>>
     ELSE /\ ReturnNow(p, NilSlice, [kind |-> "SetDeadline"])
          /\ UNCHANGED <<deadline, crashed>>
  /\ UNCHANGED <<conn, scanner, daemon, ctor, nconns, reply, serr, open, ncalls>>

\* the lines the daemon may deliver next to a Scan of p's call: any line (at
\* most MaxStream to one call) from the daemon "any", the next line of its
\* replies from the other daemons
NextLines(p) ==
  IF daemon.kind = "any"
  THEN IF Len(got[p]) < MaxStream THEN Lines ELSE {}
  ELSE IF reply[scanner] # <<>> THEN {Head(reply[scanner])} ELSE {}

\* whether the daemon may end the scanner's stream here
StreamMayEnd == daemon.kind = "any" \/ reply[scanner] = <<>>

\* the outcomes of c.scanner.Scan(): true with the text of a line, or false
\* with the error that ends (or has ended) the scanner: "EOF" (Err() is then
\* nil) or "read".  A connection closed by Close fails its reads, once the
\* lines already buffered are used up.
ScanLine(l) == [ok |-> TRUE, text |-> l]
ScanFail(e) == [ok |-> FALSE, err |-> e]

ScanOutcomes(p) ==
  IF scanner = 0 THEN {}
  ELSE IF serr[scanner] # "nil" THEN {ScanFail(serr[scanner])}
  ELSE {ScanLine(l) : l \in NextLines(p)}
       \cup (IF ~open[scanner] THEN {ScanFail("read")} ELSE {})
       \cup (IF open[scanner] /\ StreamMayEnd
             THEN {ScanFail("EOF"), ScanFail("read")} ELSE {})

\* the scanner after a Scan with outcome o
Scanned(o) ==
  /\ reply' = [reply EXCEPT ![scanner] = IF o.ok /\ @ # <<>> THEN Tail(@) ELSE @]
  /\ serr' = [serr EXCEPT ![scanner] = IF o.ok THEN @ ELSE o.err]

\* c.scanErr() after a Scan that returned false with o: the scanner's error,
\* io.ErrUnexpectedEOF when it has none (Scanner.Err() is nil after a clean
\* end of the stream)
scanErr(o) ==
  IF o.err = "read" THEN [kind |-> "read"] ELSE [kind |-> "ErrUnexpectedEOF"]

\* one more attempt after n
Count(n) == IF n < MaxTries THEN n + 1 ELSE MaxTries

\* io[p] after one write or read of p's call on connection c
Guarded(p, c) == IF refreshed[p] = c THEN io[p] ELSE "unguarded"

\* got[p] after a Scan of p's call with outcome o
Got(p, o) == IF o.ok THEN Append(got[p], o.text) ELSE got[p]

(***************************************************************************)
(* Calls.                                                                  *)
(***************************************************************************)
\* what the callers call: ExecCmd (through List) and Close against the daemon
\* "any", Info and Close against the daemon "info"
Ops == IF daemon.kind \in {"any", "echo"} THEN {"exec", "close"} ELSE {"info", "close"}

\* the command of a call: Info sends "info <filename>", a raw ExecCmd here "list"
CmdOf(op) ==
  IF op = "info" THEN NewCmd("info", <<FileName>>) ELSE NewCmd("list", <<>>)

\* a goroutine calls ExecCmd, Info or Close
\* the number the next call is known by to the daemon "echo", which names
\* the call in its reply; the other daemons tell no call from another
CallId == IF daemon.kind = "echo" THEN ncalls + 1 ELSE 0

Call(p, op) ==
  /\ ctor.phase = "done"
  /\ ~crashed /\ pc[p] = "idle"
  /\ ncalls < MaxCalls
  /\ ncalls' = ncalls + 1
  /\ cmd' = [cmd EXCEPT ![p] = [op |-> op, cmd |-> CmdOf(op), id |-> CallId,
                                 fresh |-> FALSE]]
  /\ pc' = [pc EXCEPT ![p] = IF op = "close" THEN "closeDeadline" ELSE "lock"]
  /\ last' = NoEvent
  /\ UNCHANGED <<connVars, m, daemon, ctor, crashed, werr, derr, cnt, lines, got, xconn,
                 refreshed, tries, io>>

(***************************************************************************)
(* ExecCmd (src/unnamed/part_000, lines 105-175).                          *)
(***************************************************************************)
\* Lock without waiting for the mutex to be free
LockUnguarded(p) ==
  /\ ~crashed /\ pc[p] = "lock"
  /\ m' = p
  /\ pc' = [pc EXCEPT ![p] = "deadline1"]
  /\ last' = NoEvent
  /\ UNCHANGED <<connVars, daemon, ctor, ncalls, crashed, cmd, werr, derr, cnt, lines, got,
                 xconn, refreshed, tries, io>>

\* c.m.Lock()
Lock(p) ==
  /\ ~crashed /\ pc[p] = "lock"
  /\ m = 0
  /\ m' = p
  /\ pc' = [pc EXCEPT ![p] = "deadline1"]
  /\ last' = NoEvent
  /\ UNCHANGED <<connVars, daemon, ctor, ncalls, crashed, cmd, werr, derr, cnt, lines, got,
                 xconn, refreshed, tries, io>>

\* line 109: the deadline refresh before the write loop
RefreshWrite(p, ok) ==
  /\ ~crashed /\ pc[p] = "deadline1"
  /\ SetDeadline(p, ok, "write")

\* a reconnect on broken pipe only
RetryableOnlyEPIPE(e) == e = "EPIPE"

\* whether a write error makes ExecCmd reconnect (line 115)
Retryable(e) == e \in {"EPIPE", "ECONNRESET"}

WriteErrors == {"EPIPE", "ECONNRESET", "other"}

\* the text of the number k
Numeral(k) == <<"0", "1", "2", "3", "4", "5", "6", "7", "8", "9">>[(k % 10) + 1]

\* the line "r<k>" of the reply to the k-th call's command
MarkLine(k) == <<"r", Numeral(k)>>

\* the status line "-1 e<k>" of the error reply to the k-th call's command
ErrLine(k) == <<"-", "1", " ", "e", Numeral(k)>>

\* what the daemon puts on the connection when it receives the command of
\* call k: the daemon "echo" answers it with one well-framed reply that names
\* the call (two lines, or an error); the other daemons are not driven by
\* the commands
Answers(k) ==
  IF daemon.kind = "echo"
  THEN {<<LineTwoOk, MarkLine(k), MarkLine(k)>>, <<ErrLine(k)>>}
  ELSE {<<>>}

\* line 114: one c.conn.Write of the command; w is "ok" or the error (a
\* connection closed by Close fails with an error that is neither EPIPE nor
\* ECONNRESET)
Write(p, w) ==
  /\ ~crashed /\ pc[p] = "write"
  /\ conn # 0
  /\ w \in {"ok"} \cup WriteErrors
  /\ ~open[conn] => w = "other"
  /\ LET u == Guarded(p, conn)
         t == [tries[p] EXCEPT !.w = Count(@)]
     IN  IF w = "ok"
         THEN /\ last' = Wrote(p, conn, CmdString(cmd[p].cmd))
              /\ xconn' = [xconn EXCEPT ![p] = conn]
              /\ pc' = [pc EXCEPT ![p] = "deadline2"]
              /\ io' = [io EXCEPT ![p] = u]
              /\ tries' = [tries EXCEPT ![p] = t]
              /\ refreshed' = [refreshed EXCEPT ![p] = 0]
              /\ cmd' = [cmd EXCEPT ![p].fresh = daemon.kind = "echo" /\ reply[conn] = <<>>]
              /\ \E a \in Answers(cmd[p].id) :
                   reply' = [reply EXCEPT ![conn] = @ \o a]
              /\ UNCHANGED <<m, werr, derr, cnt, lines, got>>
         ELSE IF Retryable(w)
         THEN /\ werr' = [werr EXCEPT ![p] = [kind |-> w]]
              /\ pc' = [pc EXCEPT ![p] = "dial"]
              /\ io' = [io EXCEPT ![p] = u]
              /\ tries' = [tries EXCEPT ![p] = t]
              /\ refreshed' = [refreshed EXCEPT ![p] = 0]
              /\ last' = NoEvent
              /\ UNCHANGED <<m, cmd, derr, cnt, lines, got, xconn, reply>>
         ELSE /\ Return(p, NilSlice, [kind |-> "write", cause |-> [kind |-> w]],
                        got[p], u, xconn[p], t)
              /\ UNCHANGED reply
  /\ UNCHANGED <<conn, scanner, daemon, ctor, nconns, serr, open, deadline,
                 ncalls, crashed>>

\* the connection a dial makes while c is the current one: the next
\* identifier, the first again after the last (the connection that had it is
\* by then referenced by no field of the Client)
NewConn(c) == (c % MaxConns) + 1

\* whether a dial can succeed: at most MaxConns connections are made, except
\* by the daemon "live"
MayDial == daemon.kind = "live" \/ nconns < MaxConns

\* a dial that installs the new connection and keeps the scanner of the old
initConnectionKeepsScanner ==
  /\ MayDial
  /\ nconns' = IF nconns < MaxConns THEN nconns + 1 ELSE nconns
  /\ conn' = NewConn(conn)
  /\ scanner' = scanner
  /\ open' = [open EXCEPT ![NewConn(conn)] = TRUE]
  /\ reply' = [reply EXCEPT ![NewConn(conn)] = daemon.script]
  /\ serr' = [serr EXCEPT ![NewConn(conn)] = "nil"]
  /\ deadline' = [deadline EXCEPT ![NewConn(conn)] = "none"]

\* c.initConnection() (lines 82-92) succeeds: a new connection and a new
\* scanner over it are installed; nothing is done to the connection and the
\* scanner they replace
initConnection ==
  /\ MayDial
  /\ nconns' = IF nconns < MaxConns THEN nconns + 1 ELSE nconns
  /\ conn' = NewConn(conn)
  /\ scanner' = NewConn(conn)
  /\ open' = [open EXCEPT ![NewConn(conn)] = TRUE]
  /\ reply' = [reply EXCEPT ![NewConn(conn)] = daemon.script]
  /\ serr' = [serr EXCEPT ![NewConn(conn)] = "nil"]
  /\ deadline' = [deadline EXCEPT ![NewConn(conn)] = "none"]

\* c.initConnection() fails: the nil connection DialTimeout returned has
\* been assigned to c.conn (line 84); the scanner is untouched
initConnectionFails ==
  /\ conn' = 0
  /\ UNCHANGED <<scanner, nconns, reply, serr, open, deadline>>

\* lines 117-121: the reconnect after a broken-pipe or reset write error
Reconnect(p, ok) ==
  /\ ~crashed /\ pc[p] = "dial"
  /\ IF ok
     THEN /\ initConnection
          /\ pc' = [pc EXCEPT ![p] = "write"]
          /\ tries' = [tries EXCEPT ![p].d = Count(@)]
          /\ last' = NoEvent
          /\ UNCHANGED <<m, cmd, werr, derr, cnt, lines, got, xconn, refreshed, io>>
     ELSE /\ initConnectionFails
          /\ Return(p, NilSlice,
                    [kind |-> "reestablish", write |-> werr[p],
                     cause |-> [kind |-> "dial"]],
                    got[p], io[p], xconn[p], [tries[p] EXCEPT !.d = Count(@)])
  /\ UNCHANGED <<daemon, ctor, ncalls, crashed>>

\* line 129: the deadline refresh before the status line is read
RefreshRead(p, ok) ==
  /\ ~crashed /\ pc[p] = "deadline2"
  /\ SetDeadline(p, ok, "scan")

\* a negative count taken for a message
StatusNegativeAsMessage(n) == IF n <= 0 THEN "message" ELSE "lines"

\* a zero count taken for a count of lines
StatusZeroAsLines(n) == IF n < 0 THEN "error" ELSE "lines"

\* lines 149-156 and 158: what ExecCmd does with a parsed count
\*   "error": return NewError; "message": return the trailing text;
\*   "lines": go on to read count lines
StatusCase(n) ==
  IF n < 0 THEN "error" ELSE IF n = 0 THEN "message" ELSE "lines"

\* the trailing text of the status line kept as the first line
MakeLinesWithTrailing(trailing) == <<trailing>>

\* line 161: lines := make([]string, 0, cnt); the trailing text of the
\* status line is not put into it
MakeLines(trailing) == <<>>

\* lines 133-156 and 161: read the status line and act on it
ReadStatus(p, o) ==
  /\ ~crashed /\ pc[p] = "scan"
  /\ o \in ScanOutcomes(p)
  /\ Scanned(o)
  /\ LET g == Got(p, o)
         u == Guarded(p, scanner)
         Ret(ls, e) == Return(p, ls, e, g, u, xconn[p], tries[p])
     IN  IF ~o.ok
         THEN Ret(NilSlice, [kind |-> "scan", cause |-> scanErr(o)])
         ELSE LET l == o.text
                  matches == FindStringSubmatch(l)
              IN  IF Len(matches) # 3
                  THEN Ret(NilSlice, [kind |-> "not3matches", line |-> l])
                  ELSE LET n == Atoi(matches[2])
                       IN  IF ~n.ok
                           THEN Ret(NilSlice, [kind |-> "convert", text |-> matches[2],
                                               cause |-> n.err])
                           ELSE CASE StatusCase(n.val) = "error" ->
                                       Ret(NilSlice, NewError(n.val, matches[3]))
                                  [] StatusCase(n.val) = "message" ->
                                       Ret(Slice(<<matches[3]>>), NoErr)
                                  [] OTHER ->
                                       /\ cnt' = [cnt EXCEPT ![p] = n.val]
                                       /\ lines' = [lines EXCEPT ![p] = MakeLines(matches[3])]
                                       /\ got' = [got EXCEPT ![p] = g]
                                       /\ io' = [io EXCEPT ![p] = u]
                                       /\ refreshed' = [refreshed EXCEPT ![p] = 0]
                                       /\ pc' = [pc EXCEPT ![p] = "deadline3"]
                                       /\ last' = NoEvent
                                       /\ UNCHANGED <<m, cmd, werr, derr, xconn, tries>>
  /\ UNCHANGED <<conn, scanner, daemon, ctor, nconns, open, deadline, ncalls, crashed>>

\* line 158: the deadline refresh before the content lines are read
RefreshLines(p, ok) ==
  /\ ~crashed /\ pc[p] = "deadline3"
  /\ SetDeadline(p, ok, "loop")

\* a loop that stops one line early
MoreLinesOffByOne(have, want) == Len(have) < want - 1

\* the loop condition of line 162, before its Scan
MoreLines(have, want) == Len(have) < want

\* a short response that hands out the lines collected so far
ShortResponsePartial(have, o) == [lines |-> Slice(have), err |-> scanErr(o)]

\* lines 169-172: what ExecCmd returns when the Scan with outcome o ended
\* the loop with only have collected
ShortResponse(have, o) == [lines |-> NilSlice, err |-> scanErr(o)]

\* a read loop that reconnects and sends the command again when a Scan fails
ReadLineHeals(p, o) ==
  /\ ~crashed /\ pc[p] = "loop"
  /\ MoreLines(lines[p], cnt[p])
  /\ o \in ScanOutcomes(p)
  /\ Scanned(o)
  /\ IF o.ok
     THEN /\ lines' = [lines EXCEPT ![p] = Append(@, o.text)]
          /\ got' = [got EXCEPT ![p] = Got(p, o)]
          /\ pc' = [pc EXCEPT ![p] = "deadline4"]
          /\ UNCHANGED werr
     ELSE /\ werr' = [werr EXCEPT ![p] = [kind |-> "EPIPE"]]
          /\ pc' = [pc EXCEPT ![p] = "dial"]
          /\ UNCHANGED <<lines, got>>
  /\ io' = [io EXCEPT ![p] = Guarded(p, scanner)]
  /\ refreshed' = [refreshed EXCEPT ![p] = 0]
  /\ last' = NoEvent
  /\ UNCHANGED <<m, cmd, derr, cnt, xconn, tries>>
  /\ UNCHANGED <<conn, scanner, daemon, ctor, nconns, open, deadline, ncalls, crashed>>

\* lines 162-163 and 169-172: one more line is wanted: Scan, then append the
\* text, or return the short-response error
ReadLine(p, o) ==
  /\ ~crashed /\ pc[p] = "loop"
  /\ MoreLines(lines[p], cnt[p])
  /\ o \in ScanOutcomes(p)
  /\ Scanned(o)
  /\ IF o.ok
     THEN /\ lines' = [lines EXCEPT ![p] = Append(@, o.text)]
          /\ got' = [got EXCEPT ![p] = Got(p, o)]
          /\ io' = [io EXCEPT ![p] = Guarded(p, scanner)]
          /\ refreshed' = [refreshed EXCEPT ![p] = 0]
          /\ pc' = [pc EXCEPT ![p] = "deadline4"]
          /\ last' = NoEvent
          /\ UNCHANGED <<m, cmd, werr, derr, cnt, xconn, tries>>
     ELSE Return(p, ShortResponse(lines[p], o).lines, ShortResponse(lines[p], o).err,
                 got[p], Guarded(p, scanner), xconn[p], tries[p])
  /\ UNCHANGED <<conn, scanner, daemon, ctor, nconns, open, deadline, ncalls, crashed>>

\* lines 162 and 169-174: the loop ends with all lines collected
ReturnLines(p) ==
  /\ ~crashed /\ pc[p] = "loop"
  /\ ~MoreLines(lines[p], cnt[p])
  /\ ReturnNow(p, Slice(lines[p]), NoErr)
  /\ UNCHANGED <<connVars, daemon, ctor, ncalls, crashed>>

\* line 164: the deadline refresh after each collected line
RefreshNext(p, ok) ==
  /\ ~crashed /\ pc[p] = "deadline4"
  /\ SetDeadline(p, ok, "loop")

(***************************************************************************)
(* Close (src/unnamed/part_000, lines 178-189).  It does not take c.m, so  *)
(* its three steps interleave with an ExecCmd in flight.                   *)
(***************************************************************************)
\* a Close that gives up when its deadline refresh fails
CloseDeadlineGivesUp(p, ok) ==
  /\ ~crashed /\ pc[p] = "closeDeadline"
  /\ ok => conn # 0 /\ open[conn]
  /\ IF conn = 0
     THEN /\ Panic(p)
          /\ UNCHANGED deadline
     ELSE /\ deadline' = [deadline EXCEPT ![conn] = IF ok THEN "set" ELSE @]
          /\ derr' = [derr EXCEPT ![p] = NoErr]
          /\ pc' = [pc EXCEPT ![p] = IF ok THEN "closeWrite" ELSE "idle"]
          /\ last' = NoEvent
          /\ UNCHANGED <<m, crashed, cmd, werr, cnt, lines, got, xconn, refreshed, tries, io>>
  /\ UNCHANGED <<conn, scanner, daemon, ctor, nconns, reply, serr, open, ncalls>>

\* line 179: errD := c.setDeadline()
CloseDeadline(p, ok) ==
  /\ ~crashed /\ pc[p] = "closeDeadline"
  /\ ok => conn # 0 /\ open[conn]
  /\ IF conn = 0
     THEN /\ Panic(p)
          /\ UNCHANGED deadline
     ELSE /\ deadline' = [deadline EXCEPT ![conn] = IF ok THEN "set" ELSE @]
          /\ derr' = [derr EXCEPT ![p] = IF ok THEN NoErr ELSE [kind |-> "SetDeadline"]]
          /\ pc' = [pc EXCEPT ![p] = "closeWrite"]
          /\ last' = NoEvent
          /\ UNCHANGED <<m, crashed, cmd, werr, cnt, lines, got, xconn, refreshed, tries, io>>
  /\ UNCHANGED <<conn, scanner, daemon, ctor, nconns, reply, serr, open, ncalls>>

\* line 180: _, errW := c.conn.Write([]byte("quit"))
CloseWrite(p, ok) ==
  /\ ~crashed /\ pc[p] = "closeWrite"
  /\ ok => conn # 0 /\ open[conn]
  /\ IF conn = 0
     THEN Panic(p)
     ELSE /\ last' = IF ok THEN Wrote(p, conn, <<"quit">>) ELSE NoEvent
          /\ werr' = [werr EXCEPT ![p] = IF ok THEN NoErr ELSE [kind |-> "write"]]
          /\ pc' = [pc EXCEPT ![p] = "closeConn"]
          /\ UNCHANGED <<m, crashed, cmd, derr, cnt, lines, got, xconn, refreshed, tries, io>>
  /\ UNCHANGED <<conn, scanner, daemon, ctor, nconns, reply, serr, open, deadline,
                 ncalls>>

\* a Close that reports the deadline error before the close error
CloseResultDeadlineFirst(errD, errW, err) ==
  IF errD # NoErr THEN errD ELSE IF err # NoErr THEN err ELSE errW

\* lines 182-188: the error Close returns, from its three steps' errors
CloseResult(errD, errW, err) ==
  IF err # NoErr THEN err ELSE IF errD # NoErr THEN errD ELSE errW

\* lines 181-188: err := c.conn.Close(), and the return
CloseConn(p, ok) ==
  /\ ~crashed /\ pc[p] = "closeConn"
  /\ ok => conn # 0 /\ open[conn]
  /\ IF conn = 0
     THEN /\ Panic(p)
          /\ UNCHANGED open
     ELSE /\ open' = [open EXCEPT ![conn] = FALSE]
          /\ last' = [kind |-> "return", p |-> p, op |-> "close",
                      lines |-> NilSlice,
                      err |-> CloseResult(derr[p], werr[p],
                                IF ok THEN NoErr ELSE [kind |-> "close"]),
                      info |-> NoInfo, got |-> <<>>, io |-> "guarded", xconn |-> 0,
                      tries |-> tries[p],
                      errD |-> derr[p], errW |-> werr[p],
                      errC |-> IF ok THEN NoErr ELSE [kind |-> "close"],
                      closed |-> conn]
          /\ EndCall(p)
          /\ UNCHANGED <<m, crashed>>
  /\ UNCHANGED <<conn, scanner, daemon, ctor, nconns, reply, serr, deadline, ncalls>>

(***************************************************************************)
(* NewClient (src/unnamed/part_000, lines 60-80).                          *)
(***************************************************************************)
ErrNilOption == [kind |-> "ErrNilOption"]

\* NewClient returned (client, err) for the options given; dials is the
\* number of dials it attempted
Constructs(client, err, given, dials) ==
  [kind |-> "new", client |-> client, err |-> err, given |-> given, dials |-> dials]

\* a constructor that skips nil options
ApplyOptionSkipsNil ==
  /\ ctor.phase = "options" /\ ctor.rest # <<>>
  /\ IF Head(ctor.rest) = "err"
     THEN /\ ctor' = [ctor EXCEPT !.phase = "failed"]
          /\ last' = Constructs(FALSE, [kind |-> "option"], ctor.given, ctor.dials)
     ELSE /\ ctor' = [ctor EXCEPT !.rest = Tail(@)]
          /\ last' = NoEvent
  /\ UNCHANGED <<connVars, m, daemon, ncalls, crashed, callVars>>

\* lines 62-69: one pass of the loop over the options
ApplyOption ==
  /\ ctor.phase = "options" /\ ctor.rest # <<>>
  /\ CASE Head(ctor.rest) = "nil" ->
            /\ ctor' = [ctor EXCEPT !.phase = "failed"]
            /\ last' = Constructs(FALSE, ErrNilOption, ctor.given, ctor.dials)
       [] Head(ctor.rest) = "err" ->
            /\ ctor' = [ctor EXCEPT !.phase = "failed"]
            /\ last' = Constructs(FALSE, [kind |-> "option"], ctor.given, ctor.dials)
       [] OTHER ->
            /\ ctor' = [ctor EXCEPT !.rest = Tail(@)]
            /\ last' = NoEvent
  /\ UNCHANGED <<connVars, m, daemon, ncalls, crashed, callVars>>

\* lines 75-79: after the loop, c.initConnection(); the client is returned
\* when it succeeds
FirstDial(ok) ==
  /\ ctor.phase = "options" /\ ctor.rest = <<>>
  /\ IF ok
     THEN /\ initConnection
          /\ ctor' = Constructed
          /\ last' = Constructs(TRUE, NoErr, ctor.given, ctor.dials + 1)
     ELSE /\ initConnectionFails
          /\ ctor' = [ctor EXCEPT !.phase = "failed", !.dials = @ + 1]
          /\ last' = Constructs(FALSE, [kind |-> "initial", cause |-> [kind |-> "dial"]],
                                ctor.given, ctor.dials + 1)
  /\ UNCHANGED <<m, daemon, ncalls, crashed, callVars>>

(***************************************************************************)
(* The specifications.                                                     *)
(***************************************************************************)
Next ==
  \E p \in Callers :
    \/ \E op \in Ops : Call(p, op)
    \/ Lock(p)
    \/ \E ok \in BOOLEAN : RefreshWrite(p, ok)
    \/ \E w \in {"ok"} \cup WriteErrors : Write(p, w)
    \/ \E ok \in BOOLEAN : Reconnect(p, ok)
    \/ \E ok \in BOOLEAN : RefreshRead(p, ok)
    \/ \E o \in ScanOutcomes(p) : ReadStatus(p, o)
    \/ \E ok \in BOOLEAN : RefreshLines(p, ok)
    \/ \E o \in ScanOutcomes(p) : ReadLine(p, o)
    \/ ReturnLines(p)
    \/ \E ok \in BOOLEAN : RefreshNext(p, ok)
    \/ \E ok \in BOOLEAN : CloseDeadline(p, ok)
    \/ \E ok \in BOOLEAN : CloseWrite(p, ok)
    \/ \E ok \in BOOLEAN : CloseConn(p, ok)

\* any daemon replies, any interleaving of the callers
Spec == Init /\ [][Next]_vars

\* the daemon of the info scenario
SpecInfo == InitInfo /\ [][Next]_vars

\* NewClient with any options, then the client in use
NextNew ==
  \/ ApplyOption
  \/ \E ok \in BOOLEAN : FirstDial(ok)
  \/ Next

SpecNew == InitNew /\ [][NextNew]_vars

\* a step of the call of p
Step(p) ==
  \/ Lock(p)
  \/ \E ok \in BOOLEAN : RefreshWrite(p, ok)
  \/ \E w \in {"ok"} \cup WriteErrors : Write(p, w)
  \/ \E ok \in BOOLEAN : Reconnect(p, ok)
  \/ \E ok \in BOOLEAN : RefreshRead(p, ok)
  \/ \E o \in ScanOutcomes(p) : ReadStatus(p, o)
  \/ \E ok \in BOOLEAN : RefreshLines(p, ok)
  \/ \E o \in ScanOutcomes(p) : ReadLine(p, o)
  \/ ReturnLines(p)
  \/ \E ok \in BOOLEAN : RefreshNext(p, ok)
  \/ \E ok \in BOOLEAN : CloseDeadline(p, ok)
  \/ \E ok \in BOOLEAN : CloseWrite(p, ok)
  \/ \E ok \in BOOLEAN : CloseConn(p, ok)

\* every dial, write and read completes or fails within its deadline and the
\* scheduler runs every goroutine, so a call that can take a step takes one;
\* sync.Mutex hands the lock to a waiter that finds it free again and again
Fairness == \A p \in Callers : WF_vars(Step(p)) /\ SF_vars(Lock(p))

\* the daemon that accepts connections without end, with fair scheduling
SpecEcho == InitEcho /\ [][Next]_vars

SpecLive == InitLive /\ [][Next]_vars /\ Fairness

(***************************************************************************)
(* What the claims speak of.                                               *)
(***************************************************************************)
\* caller p is inside an exchange: between acquiring c.m and returning
InFlight(p) ==
  pc[p] \in {"deadline1", "write", "dial", "deadline2", "scan", "deadline3",
             "loop", "deadline4"}

\* p's command is written and its reply is being read
Reading(p) == pc[p] \in {"deadline2", "scan", "deadline3", "loop", "deadline4"}

\* the latest step returned from ExecCmd (called directly or by Info)
ExecReturn == last.kind = "return" /\ last.op \in {"exec", "info"}

\* the latest step returned from Info
InfoReturn == last.kind = "return" /\ last.op = "info"

\* the status lines of the model, with the count and the trailing text
\* each one carries, written out by hand
StatusLines ==
  {LineNeg, LineZero, LineOne, LineTwo, LineTwoOk, LineTypeHdr, LineThreeOk}

HeaderCount(l) ==
  CASE l = LineNeg -> 0 - 1
    [] l = LineZero -> 0
    [] l = LineOne -> 1
    [] l \in {LineTwo, LineTwoOk, LineTypeHdr} -> 2
    [] l = LineThreeOk -> 3

HeaderText(l) ==
  CASE l = LineNeg -> <<"n","o">>
    [] l = LineZero -> <<"o","k">>
    [] l = LineOne -> <<"s">>
    [] l = LineTwo -> <<"a"," ","2"," ","b">>
    [] l \in {LineTwoOk, LineThreeOk} -> <<"o","k">>
    [] l = LineTypeHdr -> <<"d","s","[","t","e","m","p","]",".","t","y","p","e"," ","2"," ","G","A","U","G","E">>

\* the latest ExecCmd return read a status line with a count for which P holds
Answered(P(_)) ==
  /\ ExecReturn
  /\ last.got # <<>>
  /\ last.got[1] \in StatusLines
  /\ P(HeaderCount(last.got[1]))

Negative(n) == n < 0
Zero(n) == n = 0
Positive(n) == n > 0

(***************************************************************************)
(* C1: at most one exchange is in flight at any time: no two callers are   *)
(* between acquiring the guard and returning from ExecCmd, and whoever is  *)
(* there holds the guard.                                                  *)
(***************************************************************************)
C1_SingleExchange ==
  \A p, q \in Callers :
    InFlight(p) => m = p /\ (InFlight(q) => q = p)

\* one caller reads its reply while another waits for the guard
C1_Witness ==
  \E p, q \in Callers : p # q /\ pc[p] = "scan" /\ pc[q] = "lock"

(***************************************************************************)
(* C2: a status line with a negative count makes ExecCmd return no lines   *)
(* and the protocol error carrying that count and the line's trailing      *)
(* text, after reading that one line only.                                 *)
(***************************************************************************)
C2_NegativeStatus ==
  Answered(Negative) =>
    /\ last.lines = NilSlice
    /\ last.err = [kind |-> "rrd", code |-> HeaderCount(last.got[1]),
                   msg |-> HeaderText(last.got[1])]
    /\ Len(last.got) = 1

\* ExecCmd returned the error of the reply "-1 no"
C2_Witness ==
  ExecReturn /\ last.got = <<LineNeg>> /\ last.err.kind = "rrd" /\ last.err.code = 0 - 1

(***************************************************************************)
(* C3: a successful ExecCmd on a status line with positive count N has     *)
(* read exactly N further lines and returns exactly those, in the order    *)
(* received; it returns lines only when N were collected.                  *)
(***************************************************************************)
C3_ExactlyN ==
  (Answered(Positive) /\ (last.err = NoErr \/ ~last.lines.isNil)) =>
    /\ last.err = NoErr
    /\ Len(last.got) = 1 + HeaderCount(last.got[1])
    /\ last.lines = Slice(SubSeq(last.got, 2, 1 + HeaderCount(last.got[1])))

\* ExecCmd returned the two different lines that followed "2 a 2 b"
C3_Witness ==
  /\ ExecReturn /\ last.err = NoErr
  /\ Len(last.got) = 3 /\ last.got[1] = LineTwo /\ last.got[2] # last.got[3]
  /\ last.lines.v = <<last.got[2], last.got[3]>>

(***************************************************************************)
(* C4: a status line with count zero makes ExecCmd return the one-element  *)
(* result holding the line's trailing text and no error, after reading     *)
(* that one line only.                                                     *)
(***************************************************************************)
C4_ZeroStatus ==
  Answered(Zero) =>
    /\ last.lines = Slice(<<HeaderText(last.got[1])>>)
    /\ last.err = NoErr
    /\ Len(last.got) = 1

\* ExecCmd returned the message of the reply "0 ok"
C4_Witness ==
  ExecReturn /\ last.got = <<LineZero>> /\ last.lines = Slice(<<<<"o","k">>>>)

(***************************************************************************)
(* C5: short replies.  The reply a call reads is what its Scans returned   *)
(* followed by what the daemon still had to deliver on that connection;    *)
(* it is short when it holds fewer lines after the status line than the    *)
(* status line declares.                                                   *)
(***************************************************************************)
ShortReply ==
  /\ Answered(Positive)
  /\ last.xconn # 0
  /\ Len(last.got \o reply[last.xconn]) < 1 + HeaderCount(last.got[1])

C6_Original ==
  (Answered(Positive) /\ last.err = NoErr) =>
    last.lines.v[1] = HeaderText(last.got[1])

\* C6 amended: on success with N > 0 the result is the lines that followed
\* the status line, whose trailing text is not part of it; with N = 0 the
\* trailing text is the sole message
C6_TrailingText ==
  /\ (Answered(Positive) /\ last.err = NoErr) =>
       /\ Len(last.lines.v) = Len(last.got) - 1
       /\ \A i \in 1..Len(last.lines.v) : last.lines.v[i] = last.got[i + 1]
  /\ (Answered(Zero) /\ last.err = NoErr) =>
       last.lines.v = <<HeaderText(last.got[1])>>

\* a successful result that does not hold the trailing text "a 2 b"
C6_Witness ==
  /\ Answered(Positive) /\ last.err = NoErr /\ last.got[1] = LineTwo
  /\ \A i \in 1..Len(last.lines.v) : last.lines.v[i] # HeaderText(LineTwo)

(***************************************************************************)
(* C7: the info scenario.                                                  *)
(***************************************************************************)
KeyType  == <<"d","s","[","t","e","m","p","]",".","t","y","p","e">>
KeyIndex == <<"d","s","[","t","e","m","p","]",".","i","n","d","e","x">>
Gauge    == <<"G","A","U","G","E">>

\* the daemon's whole reply was the two lines of the scenario, read by an
\* Info call until the stream ended
ScenarioRead ==
  /\ InfoReturn /\ last.got = ScenarioStream
  /\ last.xconn # 0 /\ serr[last.xconn] = "EOF"

\* C7 as stated: Info then returns ds[temp].type = "GAUGE" (string) and
\* ds[temp].index = 0.0 (float)
C7_Original ==
  ScenarioRead =>
    last.info = [data |-> Slice(<<[Key |-> KeyType,
                                   Value |-> [type |-> "string", v |-> Gauge]],
                                  [Key |-> KeyIndex,
                                   Value |-> [type |-> "float64",
                                              v |-> FloatZero(FALSE)]]>>),
                 err |-> NoErr]

\* C7 amended: Info sends "info /tmp/x.rrd"; on the two lines of the
\* scenario its ExecCmd takes "2 ds[temp].type 2 GAUGE" for a status line
\* that declares two lines, gets one, and Info fails with the unexpected end
\* of the stream; when the two info lines follow a status line "2 ok", Info
\* returns ds[temp].type = "GAUGE" (string) and ds[temp].index = 0 (integer)
C7_InfoScenario ==
  /\ (last.kind = "write" /\ cmd[last.p].op = "info") =>
       last.text = <<"info", " ", "/tmp/x.rrd", "\n">>
  /\ ScenarioRead =>
       last.info = [data |-> NilSlice,
                    err |-> [kind |-> "InfoFailed", filename |-> "/tmp/x.rrd",
                             cause |-> [kind |-> "ErrUnexpectedEOF"]]]
  /\ (InfoReturn /\ last.got = FramedStream /\ last.err = NoErr) =>
       /\ last.info.err = NoErr
       /\ ~last.info.data.isNil
       /\ Len(last.info.data.v) = 2
       /\ last.info.data.v[1] = [Key |-> KeyType,
                                 Value |-> [type |-> "string", v |-> Gauge]]
       /\ last.info.data.v[2].Key = KeyIndex
       /\ last.info.data.v[2].Value.type = "int64"
       /\ last.info.data.v[2].Value.v = 0

\* Info decoded the two info lines that followed "2 ok"
C7_Witness ==
  InfoReturn /\ last.got = FramedStream /\ last.info.err = NoErr

(***************************************************************************)
(* C8: a failed write is followed by one reconnect attempt and a retry     *)
(* exactly when it failed with broken pipe or connection reset, so the     *)
(* writes of a call are one ahead of its reconnects while it reconnects or *)
(* reads and level with them before each write; the write loop gives up    *)
(* only on a failed reconnect or on another write error, which is returned *)
(* at once, before any reconnect, retry or read.                           *)
(***************************************************************************)
C8_ReconnectAndRetry ==
  /\ \A p \in Callers :
       /\ pc[p] = "dial" =>
            /\ werr[p].kind \in {"EPIPE", "ECONNRESET"}
            /\ tries[p].w = tries[p].d + 1
       /\ pc[p] = "write" => tries[p].w = tries[p].d
       /\ Reading(p) => tries[p].w = tries[p].d + 1
  /\ (ExecReturn /\ last.tries.w > 0 /\ last.xconn = 0) =>
       /\ last.got = <<>>
       /\ last.err.kind \in {"write", "reestablish"}
       /\ last.err.kind = "write" =>
            /\ last.err.cause.kind \notin {"EPIPE", "ECONNRESET"}
            /\ last.tries.w = last.tries.d + 1
       /\ last.err.kind = "reestablish" =>
            /\ last.err.write.kind \in {"EPIPE", "ECONNRESET"}
            /\ last.tries.w = last.tries.d

\* a write is about to be retried on the connection dialled after a reset
C8_Witness ==
  \E p \in Callers :
    pc[p] = "write" /\ tries[p].d = 1 /\ werr[p].kind = "ECONNRESET" /\ conn = 2

(***************************************************************************)
(* C9: after an ExecCmd failed because the reconnect dial failed, later    *)
(* calls on the client return a result or an error: none panics.           *)
(***************************************************************************)
C9_ClientStaysUsable == last.kind # "panic" /\ ~crashed

(***************************************************************************)
(* C10: every write and every read of an exchange follows a deadline       *)
(* refresh made by that exchange on the connection it uses, since the      *)
(* exchange's previous write or read.                                      *)
(***************************************************************************)
C10_EveryIOGuarded ==
  /\ \A p \in Callers : io[p] = "guarded"
  /\ last.kind = "return" => last.io = "guarded"

(***************************************************************************)
(* C11: every ExecCmd call that has started its exchange eventually        *)
(* returns (or the process has died), when every dial, write and read      *)
(* completes or fails and every goroutine is scheduled.                    *)
(***************************************************************************)
C11_EveryCallReturns ==
  \A p \in Callers : InFlight(p) ~> (pc[p] = "idle" \/ crashed)

\* caller p is inside Close
Closing(p) == pc[p] \in {"closeDeadline", "closeWrite", "closeConn"}

\* the latest step returned from Close
CloseReturn == last.kind = "return" /\ last.op = "close"

(***************************************************************************)
(* C12: every step of a Close on a connection is, in this order, the       *)
(* deadline refresh, the write of "quit" and the close of the stream, each *)
(* made whatever the earlier ones returned; no step of Close reads from    *)
(* the stream or consumes a reply; when all three succeed Close returns    *)
(* no error.                                                               *)
(***************************************************************************)
C12_CloseSteps ==
  [][\A p \in Callers :
       (Closing(p) /\ pc'[p] # pc[p] /\ conn # 0) =>
         /\ UNCHANGED <<conn, scanner, reply, serr, got, m>>
         /\ pc[p] = "closeDeadline" =>
              /\ pc'[p] = "closeWrite"
              /\ last'.kind = "none" /\ open' = open
              /\ derr'[p] = NoErr => deadline'[conn] = "set"
              /\ derr'[p] # NoErr => deadline' = deadline
         /\ pc[p] = "closeWrite" =>
              /\ pc'[p] = "closeConn"
              /\ last'.kind \in {"none", "write"} /\ open' = open
              /\ last'.kind = "write" => last' = Wrote(p, conn, <<"quit">>)
              /\ (werr'[p] = NoErr) = (last'.kind = "write")
              /\ derr'[p] = derr[p]
         /\ pc[p] = "closeConn" =>
              /\ pc'[p] = "idle"
              /\ ~open'[conn]
              /\ last'.kind = "return" /\ last'.op = "close" /\ last'.p = p
              /\ last'.errD = derr[p] /\ last'.errW = werr[p]
              /\ (derr[p] = NoErr /\ werr[p] = NoErr /\ last'.errC = NoErr)
                   => last'.err = NoErr]_vars

\* Close has closed the stream and returned although its deadline refresh
\* and its write of "quit" had failed
C12_Witness ==
  /\ CloseReturn /\ ~open[last.closed]
  /\ last.errD # NoErr /\ last.errW # NoErr /\ last.errC = NoErr

(***************************************************************************)
(* C13: the error Close returns is the stream-close error if closing       *)
(* failed; otherwise the deadline-refresh error if that failed; otherwise  *)
(* the error of the quit write if that failed; otherwise nil.              *)
(***************************************************************************)
C13_CloseError ==
  CloseReturn =>
    /\ last.errC # NoErr => last.err = [kind |-> "close"]
    /\ (last.errC = NoErr /\ last.errD # NoErr) => last.err = [kind |-> "SetDeadline"]
    /\ (last.errC = NoErr /\ last.errD = NoErr /\ last.errW # NoErr) =>
         last.err = [kind |-> "write"]
    /\ (last.errC = NoErr /\ last.errD = NoErr /\ last.errW = NoErr) =>
         last.err = NoErr

\* all three steps of a Close failed and it returned the close error
C13_Witness ==
  /\ CloseReturn
  /\ last.errC # NoErr /\ last.errD # NoErr /\ last.errW # NoErr
  /\ last.err = last.errC

(***************************************************************************)
(* C14: the Info decoder.  The entries the content lines of the model      *)
(* stand for, written out by hand; the lines of BadInfoLines stand for     *)
(* none.                                                                   *)
(***************************************************************************)
BadInfoLines == {LineD, LineE, LineF, LineG}

Entry(key, type, v) == [Key |-> key, Value |-> [type |-> type, v |-> v]]

Expect(l) ==
  CASE l = LineA -> Entry(<<"a">>, "int64", 0 - 42)
    [] l = LineB -> Entry(<<"b">>, "float64",
                          [kind |-> "float", neg |-> FALSE,
                           digits |-> <<"3","5">>, exp |-> 0 - 1])
    [] l = LineC -> Entry(<<"c">>, "string", <<"r","r","d"," ","f","i","l","e">>)
    [] l = LineType -> Entry(KeyType, "string", Gauge)
    [] l = LineIndex -> Entry(KeyIndex, "int64", 0)
    [] l = LineInfo -> Entry(<<"a">>, "int64", 5)

\* the key an error about line l names, for the lines that have three fields
BadKey(l) ==
  CASE l = LineD -> <<"d">> [] l = LineE -> <<"e">> [] l = LineG -> <<"g">>

\* the first position of ls that holds a line of BadInfoLines
FirstBad(ls) ==
  CHOOSE i \in 1..Len(ls) :
    ls[i] \in BadInfoLines /\ \A j \in 1..(i - 1) : ls[j] \notin BadInfoLines

\* C14: when its ExecCmd succeeded, Info returns one entry per content line,
\* in order, with the line's key and the value its tag selects (tag "2" the
\* raw text with its spaces, "1" an int64, "0" a float64), if every line has
\* three fields, a tag among "0", "1", "2" and a literal that parses; else it
\* returns no entries and an error naming the first offending line (and its
\* key, when the line has one with a bad tag or literal).  When its ExecCmd
\* failed Info returns no entries and an error wrapping that failure.
C14_InfoDecode ==
  InfoReturn =>
    IF last.err # NoErr
    THEN /\ last.info.data = NilSlice
         /\ last.info.err.kind = "InfoFailed" /\ last.info.err.cause = last.err
    ELSE IF \A i \in 1..Len(last.lines.v) : last.lines.v[i] \notin BadInfoLines
    THEN /\ last.info.err = NoErr
         /\ ~last.info.data.isNil
         /\ Len(last.info.data.v) = Len(last.lines.v)
         /\ \A i \in 1..Len(last.lines.v) :
              /\ last.info.data.v[i].Key = Expect(last.lines.v[i]).Key
              /\ last.info.data.v[i].Value.type = Expect(last.lines.v[i]).Value.type
              /\ last.info.data.v[i].Value.v = Expect(last.lines.v[i]).Value.v
    ELSE LET bad == last.lines.v[FirstBad(last.lines.v)]
         IN  /\ last.info.data = NilSlice
             /\ last.info.err # NoErr
             /\ last.info.err.line = bad
             /\ bad = LineF => last.info.err.kind = "not3parts"
             /\ bad # LineF =>
                  /\ last.info.err.kind = "InvalidResponse"
                  /\ last.info.err.msg.key = BadKey(bad)

\* Info decoded "a 1 -42", "b 0 3.5", "c 2 rrd file"
C14_Witness ==
  /\ InfoReturn /\ last.lines = Slice(<<LineA, LineB, LineC>>)
  /\ last.info.err = NoErr
  /\ last.info.data.v[1].Value.v = 0 - 42
  /\ last.info.data.v[3].Value.v = <<"r","r","d"," ","f","i","l","e">>

(***************************************************************************)
(* C15: NewClient returns a client only when every option given was        *)
(* non-nil and succeeded and the first dial succeeded.  A nil option or an *)
(* option that returns an error fails the constructor, with no client and  *)
(* with no dial attempted; a failed first dial fails it, with no client.   *)
(***************************************************************************)
C15_NewClient ==
  /\ ctor.phase # "done" =>
       /\ nconns = 0 /\ \A i \in ConnIds : ~open[i]
       /\ ncalls = 0 /\ \A p \in Callers : pc[p] = "idle"
  /\ (\E i \in 1..Len(ctor.given) : ctor.given[i] # "ok") =>
       /\ ctor.phase # "done" /\ ctor.dials = 0
  /\ last.kind = "new" =>
       LET bad == {i \in 1..Len(last.given) : last.given[i] # "ok"}
       IN  /\ last.client =>
                /\ bad = {} /\ last.err = NoErr
                /\ last.dials = 1 /\ nconns = 1 /\ conn = 1 /\ open[1]
           /\ bad # {} =>
                /\ ~last.client /\ last.dials = 0 /\ ctor.phase = "failed"
                /\ LET first == CHOOSE i \in bad : \A j \in bad : i <= j
                   IN  last.err = IF last.given[first] = "nil"
                                  THEN [kind |-> "ErrNilOption"]
                                  ELSE [kind |-> "option"]
           /\ (bad = {} /\ ~last.client) =>
                /\ last.err.kind = "initial" /\ last.dials = 1
                /\ ctor.phase = "failed"
           /\ ~last.client => last.err # NoErr

\* NewClient failed on a nil option that followed a good one, without dialling
C15_Witness ==
  /\ last.kind = "new" /\ last.given = <<"ok", "nil">>
  /\ ~last.client /\ last.dials = 0 /\ last.err = [kind |-> "ErrNilOption"]

(***************************************************************************)
(* C16: once its command is written, ExecCmd neither reconnects nor writes *)
(* again, whatever the reads return: every step of a call that is reading  *)
(* its reply leaves c.conn and c.scanner the objects the command was       *)
(* written to, dials nothing, writes nothing, and either goes on reading   *)
(* or returns; a return with an error (scan failure, malformed status      *)
(* line, negative status, short response, failed refresh) comes with the   *)
(* attempts counted when the write succeeded.                              *)
(***************************************************************************)
C16_NoSelfHealing ==
  [][\A p \in Callers :
       (Reading(p) /\ pc'[p] # pc[p]) =>
         /\ conn = xconn[p] /\ scanner = xconn[p]
         /\ conn' = conn /\ scanner' = scanner
         /\ nconns' = nconns /\ open' = open
         /\ Reading(p)' \/ pc'[p] = "idle"
         /\ last'.kind \in {"none", "return"}
         /\ Reading(p)' => tries'[p] = tries[p] /\ xconn'[p] = xconn[p]
         /\ pc'[p] = "idle" =>
              /\ last'.kind = "return" /\ last'.p = p
              /\ last'.tries = tries[p] /\ last'.xconn = xconn[p]]_vars

\* a call that reconnected once found its reply one line short and returned
\* the error, with the second connection still the client's
C16_Witness ==
  /\ ExecReturn /\ last.err = [kind |-> "ErrUnexpectedEOF"]
  /\ last.tries = [w |-> 2, d |-> 1]
  /\ last.xconn = 2 /\ conn = 2 /\ scanner = 2 /\ nconns = 2

(***************************************************************************)
(* C17: Close is serialized with the exchange: its write of "quit" and its *)
(* close of the stream never happen while an ExecCmd call is in flight, and *)
(* the connection an exchange wrote its command to is open for as long as  *)
(* the exchange reads its reply.                                           *)
(***************************************************************************)
C17_CloseSerialized ==
  /\ (last.kind = "write" /\ last.text = <<"quit">>) =>
       \A p \in Callers : ~InFlight(p)
  /\ CloseReturn => \A p \in Callers : ~InFlight(p)
  /\ \A p \in Callers : Reading(p) => open[xconn[p]]


\* the lines of the replies the daemon "echo" makes to the command of call k
OwnLines(k) == {LineTwoOk, MarkLine(k), ErrLine(k)}

\* C18: against a daemon that answers every command it receives with one
\* well-framed reply, in order, a call whose command was written to a
\* connection with nothing of an earlier exchange pending reads only lines of
\* the reply to its own command, and the lines or the protocol error it
\* returns are those of that reply
C18_OwnReply ==
  (ExecReturn /\ last.fresh) =>
    /\ \A i \in 1..Len(last.got) : last.got[i] \in OwnLines(last.id)
    /\ last.err = NoErr =>
         /\ ~last.lines.isNil
         /\ last.lines.v = <<MarkLine(last.id), MarkLine(last.id)>>
    /\ (last.err # NoErr /\ last.err.kind = "rrd") =>
         /\ last.err = NewError(0 - 1, <<"e", Numeral(last.id)>>)
         /\ last.got = <<ErrLine(last.id)>>

\* the second call, on the connection the first call completed its exchange
\* on, returns the two lines of the reply to its own command
C18_Witness ==
  /\ ExecReturn /\ last.fresh /\ last.id = 2 /\ last.xconn = 1
  /\ last.err = NoErr
  /\ last.lines.v = <<MarkLine(2), MarkLine(2)>>

\* a call that follows an exchange abandoned before its reply was read
\* returns the lines of the reply to the earlier command
C18_StaleReply ==
  /\ ExecReturn /\ ~last.fresh /\ last.id = 2
  /\ last.err = NoErr
  /\ last.lines.v = <<MarkLine(1), MarkLine(1)>>

\* C19: the mutex is held only by a caller that is inside ExecCmd between
\* its Lock and its return: every return of ExecCmd leaves the mutex free and
\* the caller idle, and whenever no caller is inside an exchange the mutex is
\* free, so that a caller waiting in Lock can take it
C19_GuardReleased ==
  /\ (\A p \in Callers : ~InFlight(p)) => m = 0
  /\ m # 0 => InFlight(m)
  /\ ExecReturn => (m = 0 /\ pc[last.p] = "idle")

\* a call returns an error while the other caller waits in Lock: the mutex
\* is free for it
C19_Witness ==
  /\ ExecReturn /\ last.err # NoErr /\ m = 0
  /\ \E q \in Callers : pc[q] = "lock"

\* the connections the client dialled and has not closed
OpenStreams == {i \in ConnIds : open[i]}

\* C20: the client has at most one open connection at any time: the
\* connection a reconnect replaces is closed, and when Close has returned no
\* connection the client dialled is open
C20_OneOpenStream ==
  /\ Cardinality(OpenStreams) <= 1
  /\ CloseReturn => OpenStreams = {}

====
